---- MODULE Spec2Model ----
(***************************************************************************)
(* Marginal-constrained maximum entropy by Frank-Wolfe                     *)
(* (dit/algorithms/maxentropyfw.py).                                       *)
(*                                                                         *)
(* Numbers are exact rationals.  A probability vector is a record          *)
(* [num |-> f, den |-> d, nan |-> S] standing for the vector f[c] / d;     *)
(* the components in S are not numbers (NaN or an infinity, what numpy     *)
(* gives for a division by a zero sum).  A joint distribution is a         *)
(* function from outcome index to an integer mass; its probabilities are   *)
(* mass / total.  Optional values (Python None, a local that is not bound  *)
(* yet) are sequences of length 0 or 1.                                    *)
(***************************************************************************)
EXTENDS Integers, Sequences, FiniteSets, TLC

\* largest value of the maxiters argument
MaxIters == 2
\* largest integer mass of one outcome of an input distribution
MaxMass == 2

\* dist.alphabet of the inputs: three binary random variables
alphabet == <<{0, 1}, {0, 1}, {0, 1}>>
n_variables == Len(alphabet)
rvs == 0 .. (n_variables - 1)

RECURSIVE Pow2(_)
Pow2(e) == IF e = 0 THEN 1 ELSE 2 * Pow2(e - 1)

n_elements == Pow2(n_variables)
\* the sample space in its canonical order: outcome i has symbol Bit(i, v)
\* for variable v, the first variable varying slowest
outcomes == 0 .. (n_elements - 1)
Bit(i, v) == (i \div Pow2(n_variables - 1 - v)) % 2

---------------------------------------------------------------------------
\* arithmetic helpers

Abs(a) == IF a < 0 THEN -a ELSE a

RECURSIVE Gcd(_, _)
Gcd(a, b) == IF b = 0 THEN a ELSE Gcd(b, a % b)

Lcm(a, b) == (a \div Gcd(a, b)) * b

RECURSIVE Sum(_, _)
Sum(f, S) ==
    IF S = {} THEN 0
    ELSE LET e == CHOOSE e \in S : TRUE IN f[e] + Sum(f, S \ {e})

RECURSIVE GcdOver(_, _, _)
GcdOver(f, S, g) ==
    IF S = {} THEN g
    ELSE LET e == CHOOSE e \in S : TRUE IN GcdOver(f, S \ {e}, Gcd(Abs(f[e]), g))

Min(S) == CHOOSE m \in S : \A o \in S : m <= o
Max(S) == CHOOSE m \in S : \A o \in S : m >= o

RECURSIVE SetToSeq(_)
SetToSeq(S) == IF S = {} THEN <<>> ELSE <<Min(S)>> \o SetToSeq(S \ {Min(S)})

Range(s) == {s[j] : j \in DOMAIN s}

\* a / b < c / d for a, c >= 0 and b, d > 0, by continued fractions, so that
\* no product leaves the integer range
RECURSIVE LessRat(_, _, _, _)
LessRat(a, b, c, d) ==
    LET q1 == a \div b
        q2 == c \div d
        r1 == a % b
        r2 == c % d
    IN  IF q1 # q2 THEN q1 < q2
        ELSE IF r2 = 0 THEN FALSE
        ELSE IF r1 = 0 THEN TRUE
        ELSE LessRat(d, r2, b, r1)

LeqRat(a, b, c, d) == ~LessRat(c, d, a, b)

\* the vector over the index set D none of whose components is a number
NaN(D) == [num |-> [c \in D |-> 0], den |-> 1, nan |-> D]

\* the canonical form of num / den: positive denominator, lowest terms; a
\* division by zero leaves no component a number
Rat(num, den) ==
    IF den = 0 THEN NaN(DOMAIN num)
    ELSE LET g == GcdOver(num, DOMAIN num, Abs(den))
             s == IF den < 0 THEN -1 ELSE 1
         IN  [num |-> [c \in DOMAIN num |-> (s * num[c]) \div g],
              den |-> (s * den) \div g,
              nan |-> {}]

\* |num / den| <= 1 / inv and |num / den| < 1 / inv, for den > 0
AtMost(num, den, inv) == num = 0 \/ inv <= den \div Abs(num)
Below(num, den, inv) == num = 0 \/ inv <= (den - 1) \div Abs(num)

None == <<>>
Some(v) == <<v>>

---------------------------------------------------------------------------
\* the distribution collaborator

total(d) == Sum(d, DOMAIN d)

\* dist.pmf of a dense distribution, as a probability vector
pmf(d) == Rat(d, total(d))

Popcount(i) == Sum([v \in rvs |-> Bit(i, v)], rvs)

\* the input distributions: the masses depend on the number of ones of the
\* outcome, or on the first variable alone (the other two uniform)
Masses ==
    {m \in {[i \in outcomes |-> f[Popcount(i)]] : f \in [0 .. n_variables -> 0 .. MaxMass]}
            \cup {[i \in outcomes |-> g[Bit(i, 0)]] : g \in [0 .. 1 -> 0 .. MaxMass]} :
        \E i \in outcomes : m[i] > 0}

\* as the caller holds them: over the Cartesian product sample space, sparse
\* (the outcomes of nonzero mass only)
Inputs == {[i \in {j \in outcomes : m[j] > 0} |-> m[i]] : m \in Masses}

\* the sample space is a CartesianProduct already; make_dense gives the
\* outcomes that are missing a mass of zero
prepare_dist(d) == [i \in outcomes |-> IF i \in DOMAIN d THEN d[i] ELSE 0]

RECURSIVE Product(_, _)
Product(f, S) ==
    IF S = {} THEN 1
    ELSE LET e == CHOOSE e \in S : TRUE IN f[e] * Product(f, S \ {e})

\* dit.product_distribution: the product of the one-variable marginals
product_distribution(d) ==
    LET marginal(v, s) == Sum(d, {i \in outcomes : Bit(i, v) = s})
    IN  Rat([j \in outcomes |-> Product([v \in rvs |-> marginal(v, Bit(j, v))], rvs)],
            Product([v \in rvs |-> total(d)], rvs))

\* dit.Distribution(outcomes, [1] * len(outcomes)) normalized
uniform_distribution == Rat([j \in outcomes |-> 1], n_elements)

combinations(S, kk) == {s \in SUBSET S : Cardinality(s) = kk}

\* AbstractDenseDistribution.parameter_array: for each cell of the marginal
\* over subrvs, the indices of the joint outcomes that sum to it
parameter_array(subrvs) ==
    {{i \in outcomes : \A v \in subrvs : Bit(i, v) = a[v]} :
        a \in [subrvs -> UNION Range(alphabet)]}

\* every (subset of kk variables, marginal cell) pair
MarginalCells(kk) ==
    UNION {{<<subrvs, idx>> : idx \in parameter_array(subrvs)} :
              subrvs \in combinations(rvs, kk)}

\* maxentropy.marginal_constraints: one row per pair, the indicator of the
\* cell, and the cell's probability under the distribution
marginal_constraints(d, kk) ==
    [A |-> [r \in MarginalCells(kk) |-> [j \in outcomes |-> IF j \in r[2] THEN 1 ELSE 0]],
     b |-> [num |-> [r \in MarginalCells(kk) |-> Sum(d, r[2])], den |-> total(d)]]

---------------------------------------------------------------------------
\* isolate_zeros

\* 1 / atol of np.isclose(p, 0): |p| <= atol
isclose_atol_inv == 100000000

\* np.isclose(p, 0) for p = mass / whole
isclose(mass, whole) == AtMost(mass, whole, isclose_atol_inv)

\* zero_elements after the loops: for each index, the number of (subrvs,
\* idx) pairs whose bvec covers it and whose marginal probability is close
\* to zero
zero_elements(d, kk) ==
    [i \in outcomes |->
        Cardinality({sc \in MarginalCells(kk) :
                        i \in sc[2] /\ isclose(Sum(d, sc[2]), total(d))})]

is_zero_once(count) == count = 1

\* the truth value of one entry of zero_elements
is_zero(count) == count # 0

isolate_zeros(d, kk) ==
    LET elements == zero_elements(d, kk)
        zero == SetToSeq({i \in outcomes : is_zero(elements[i])})
        zeroset == Range(zero)
        nonzero == SetToSeq({i \in outcomes : i \notin zeroset})
        eq(i) == [j \in outcomes |-> IF j = i THEN 1 ELSE 0]
    IN  [A |-> IF zero # <<>> THEN Some([r \in 1 .. Len(zero) |-> eq(zero[r])]) ELSE None,
         b |-> IF zero # <<>> THEN Some([r \in 1 .. Len(zero) |-> 0]) ELSE None,
         variables |-> [nonzero |-> nonzero, zero |-> zero]]

---------------------------------------------------------------------------
\* the reduced constraint system and the linear programs

\* A[:, variables.nonzero]
reduced(A, nonzero) ==
    [r \in DOMAIN A |-> [c \in 1 .. Len(nonzero) |-> A[r][nonzero[c]]]]

Asmall(d, kk, nonzero) == reduced(marginal_constraints(d, kk).A, nonzero)

\* every component of A * xv - b is within 1 / inv of zero
residual_within(A, b, xv, inv) ==
    \A r \in DOMAIN A :
        AtMost(Sum([c \in DOMAIN xv.num |-> A[r][c] * xv.num[c]], DOMAIN xv.num) * b.den
                  - b.num[r] * xv.den,
               xv.den * b.den, inv)

nonnegative(xv) == xv.nan = {} /\ \A c \in DOMAIN xv.num : xv.num[c] >= 0

\* The solutions of A x = b are the points pmf + sum of t[T] * Sign(T) over
\* the sets T of more than kk variables, Sign(T) the interaction vector of T.
\* Points(d, kk, nonzero, scale) are those with every t[T] a multiple of
\* 1 / (scale * total), cut down to the nonzero columns; a linear program
\* keeps the ones that satisfy its constraints as the code states them.
Sign(T, j) == IF Sum([v \in T |-> Bit(j, v)], T) % 2 = 0 THEN 1 ELSE -1

Points(d, kk, nonzero, scale) ==
    LET higher == {T \in SUBSET rvs : Cardinality(T) > kk}
        reach == scale * Max({d[j] : j \in outcomes})
    IN  {[num |-> [c \in 1 .. Len(nonzero) |->
                      scale * d[nonzero[c]]
                        + Sum([T \in higher |-> t[T] * Sign(T, nonzero[c])], higher)],
          den |-> scale * total(d),
          nan |-> {}] : t \in [higher -> (-reach) .. reach]}

\* 1 / tol of initial_point
initial_point_tol_inv == 100000000

\* 1 / TOL of frank_wolfe
TOL_inv == 10000000

MinComponent(xv) == Min({xv.num[c] : c \in DOMAIN xv.num})

\* a variable of a solved program, as opt.variables() lists it
Variable(name, size, value) == [name |-> name, size |-> size, value |-> value]

Canonical(xv) == Rat(xv.num, xv.den)

\* initial_point's program: minimize -t subject to
\* -tol <= Asmall * x - b <= tol and x >= t.  At the optimum t is the least
\* component of x; the variables come back in either order.
initial_point_solutions(d, kk, nonzero) ==
    LET cons == marginal_constraints(d, kk)
        A == reduced(cons.A, nonzero)
        feasible == {p \in Points(d, kk, nonzero, 2) :
                        residual_within(A, cons.b, p, initial_point_tol_inv)}
        best == {p \in feasible : \A q \in feasible : MinComponent(q) <= MinComponent(p)}
        xvar(p) == Variable("x", Len(nonzero), Some(Canonical(p)))
        tvar(p) == Variable("t", 1, Some(Rat(<<MinComponent(p)>>, p.den)))
    IN  UNION {{<<xvar(p), tvar(p)>>, <<tvar(p), xvar(p)>>} : p \in best}

\* frank_wolfe's direction program: minimize grad.T * xbar subject to
\* xbar >= 0 and -TOL <= A * xbar - b <= TOL.  The gradient is the caller's:
\* any point of the feasible set is the minimizer for some gradient (all of
\* them for a gradient that is constant on the set).
direction_solutions(d, kk, nonzero) ==
    LET cons == marginal_constraints(d, kk)
        A == reduced(cons.A, nonzero)
    IN  {<<Variable("xbar", Len(nonzero), Some(Canonical(p)))>> :
            p \in {q \in Points(d, kk, nonzero, 1) :
                      nonnegative(q) /\ residual_within(A, cons.b, q, TOL_inv)}}

\* a direction program that ends without optimal status leaves no value, or
\* its last iterate, which need not satisfy the constraints: here the pmf
\* with its first component one unit short
direction_leftovers(d, nonzero) ==
    {<<Variable("xbar", Len(nonzero), None)>>,
     <<Variable("xbar", Len(nonzero),
                Some(Rat([c \in 1 .. Len(nonzero) |->
                             d[nonzero[c]] - (IF c = 1 THEN 1 ELSE 0)],
                         total(d))))>>}

\* check_feasibility's program: minimize t subject to
\* -t <= A * x - b <= t and x >= 0; the pmf itself has residual zero
check_feasibility_solutions(d) ==
    {<<Variable("x", n_elements, Some(pmf(d))), Variable("t", 1, Some(Rat(<<0>>, 1)))>>}

\* the variables of a program that did not end optimal and left no values
no_values(n) == <<Variable("x", n, None), Variable("t", 1, None)>>

---------------------------------------------------------------------------
\* the solver's process-wide options: a dict, "" for a key that is absent

OptionKeys == {"show_progress", "maxiters"}

dict(show_progress, maxits) ==
    [key \in OptionKeys |-> IF key = "show_progress" THEN show_progress ELSE maxits]

clear(options_) == [key \in OptionKeys |-> ""]

update(options_, other) ==
    [key \in OptionKeys |-> IF other[key] # "" THEN other[key] ELSE options_[key]]

restore_without_clear(current, old) == update(current, old)

\* the finally clause of op_runner: options.clear(); options.update(old_options)
restore(current, old) == update(clear(current), old)

\* what the process may have configured before the call
AmbientOptions == {dict("", ""), dict("True", "100")}

\* the keyword arguments a caller of check_feasibility may pass on
CallerKwargs == {dict("", ""), dict("False", "")}

---------------------------------------------------------------------------
\* the numerics of frank_wolfe and marginal_maxent

\* the values of the tol argument; 1/1000 is the default
TolSet == {[num |-> 1, den |-> 1000], [num |-> 3, den |-> 10]}

Fraction(a, b) == <<a \div Gcd(Abs(a), b), b \div Gcd(Abs(a), b)>>

\* np.nansum(p * np.log2(p)): the sum runs over the positive components (a
\* zero component gives 0, a negative one NaN, which nansum drops), so it
\* is a function of the bag of positive components.  The value is kept as
\* that bag: equal bags are equal values.
negentropy(p) ==
    LET positive == {c \in DOMAIN p.num : p.num[c] > 0}
        value(c) == Fraction(p.num[c], p.den)
    IN  [v \in {value(c) : c \in positive} |->
            Cardinality({c \in positive : value(c) = v})]

\* xnew = (i * x + 2 * xbar_opt) / (i + 2)
step(it, xv, xbar_opt) ==
    Rat([c \in DOMAIN xv.num |->
            it * xv.num[c] * xbar_opt.den + 2 * xbar_opt.num[c] * xv.den],
        (it + 2) * xv.den * xbar_opt.den)

\* np.linalg.norm(xnew - x), squared, as a fraction num / den
norm_squared(xnew, xv) ==
    LET common == Lcm(xnew.den, xv.den)
        diff(c) == xnew.num[c] * (common \div xnew.den) - xv.num[c] * (common \div xv.den)
        squares == Sum([c \in DOMAIN xv.num |-> diff(c) * diff(c)], DOMAIN xv.num)
        g == Gcd(squares, common * common)
    IN  [num |-> squares \div g, den |-> (common * common) \div g]

\* xdiff < tol, on the squares
converged(xdiff2, tolerance) ==
    LessRat(xdiff2.num, xdiff2.den, tolerance.num * tolerance.num, tolerance.den * tolerance.den)

\* xopt[np.abs(xopt) < tol] = 0; xopt /= xopt.sum()
cleanup(xv, tolerance) ==
    LET kept == [c \in DOMAIN xv.num |->
                    IF LessRat(Abs(xv.num[c]), xv.den, tolerance.num, tolerance.den)
                    THEN 0 ELSE xv.num[c]]
    IN  Rat(kept, Sum(kept, DOMAIN kept))

\* initial_point: xopt[np.abs(xopt) < tol] = 0; xopt /= xopt.sum()
snap(xv) ==
    LET kept == [c \in DOMAIN xv.num |->
                    IF Below(xv.num[c], xv.den, initial_point_tol_inv) THEN 0 ELSE xv.num[c]]
    IN  Rat(kept, Sum(kept, DOMAIN kept))

rebuild_prefix(xv, nonzero) ==
    [num |-> [j \in outcomes |-> IF j < Len(nonzero) THEN xv.num[j + 1] ELSE 0],
     den |-> xv.den,
     nan |-> {j \in outcomes : j < Len(nonzero) /\ (j + 1) \in xv.nan}]

\* xfinal = np.zeros(A.shape[1]); xfinal[nonzero] = x
rebuild(xv, nonzero) ==
    LET column(j) == CHOOSE c \in 1 .. Len(nonzero) : nonzero[c] = j
        filled == Range(nonzero)
    IN  [num |-> [j \in outcomes |-> IF j \in filled THEN xv.num[column(j)] ELSE 0],
         den |-> xv.den,
         nan |-> {j \in filled : column(j) \in xv.nan}]

---------------------------------------------------------------------------
\* the program

VARIABLES
    entry,        \* the function the caller calls
    dist,         \* its distribution argument (the prepared one once prepare_dist ran)
    k_max,        \* arguments of marginal_maxent_dists
    maxiters,
    tol,
    kwargs,       \* keyword arguments of check_feasibility
    ambient,      \* the solver options the process set up before the call
    pc,           \* where the call stands
    k,            \* the order: the loop variable of marginal_maxent_dists, or the argument
    dists,        \* marginal_maxent_dists: the list being built
    iso,          \* what the last isolate_zeros call returned
    initial_x,    \* marginal_maxent: the point initial_point returned
    x,            \* frank_wolfe: the current iterate
    xdiff,        \* frank_wolfe: xdiff, squared
    i,            \* frank_wolfe: the loop variable
    obj,          \* frank_wolfe: obj, None while the name is unbound
    xopt,         \* frank_wolfe: the vector it returned
    pmf_opt,      \* marginal_maxent: the full vector it returned
    opt,          \* op_runner: the solved program
    options,      \* cvxopt.solvers.options
    old_options,  \* op_runner: the copy it took
    op_kwargs,    \* op_runner: its keyword arguments
    caller,       \* op_runner: who called it
    raised,       \* the exception that is propagating, "" for none
    solves,       \* the number of direction programs frank_wolfe has had solved
    picked,       \* initial_point: the name of the variable whose value it took
    fw_exit       \* frank_wolfe: how its loop ended ("break" or "else")

vars == <<entry, dist, k_max, maxiters, tol, kwargs, ambient, pc, k, dists, iso,
          initial_x, x, xdiff, i, obj, xopt, pmf_opt, opt, options, old_options,
          op_kwargs, caller, raised, solves, picked, fw_exit>>

inputs == <<entry, k_max, maxiters, tol, kwargs, ambient>>
fw_locals == <<x, xdiff, i, obj, fw_exit>>
op_locals == <<opt, old_options, op_kwargs, caller>>

DefaultTol == [num |-> 1, den |-> 1000]

Init ==
    /\ entry \in {"marginal_maxent_dists", "isolate_zeros", "check_feasibility"}
    /\ \E d \in Inputs :
          dist = IF entry = "marginal_maxent_dists" THEN d ELSE prepare_dist(d)
    /\ ambient \in AmbientOptions
    /\ options = ambient
    /\ IF entry = "marginal_maxent_dists"
       THEN /\ k_max \in 0 .. n_variables
            /\ maxiters \in 0 .. MaxIters
            /\ tol \in TolSet
            /\ k = 0
            /\ kwargs = dict("", "")
       ELSE /\ k_max = n_variables
            /\ maxiters = 0
            /\ tol = DefaultTol
            /\ k \in 0 .. n_variables
            /\ kwargs \in (IF entry = "check_feasibility" THEN CallerKwargs ELSE {dict("", "")})
    /\ pc = "start"
    /\ dists = <<>>
    /\ iso = None
    /\ initial_x = None
    /\ x = None
    /\ xdiff = [num |-> 0, den |-> 1]
    /\ i = 0
    /\ obj = None
    /\ xopt = None
    /\ pmf_opt = None
    /\ opt = None
    /\ old_options = dict("", "")
    /\ op_kwargs = dict("", "")
    /\ caller = ""
    /\ raised = ""
    /\ solves = 0
    /\ picked = ""
    /\ fw_exit = ""

\* marginal_maxent_dists up to its loop: prepare_dist, k0, k1
marginal_maxent_dists ==
    /\ pc = "start" /\ entry = "marginal_maxent_dists"
    /\ dist' = prepare_dist(dist)
    /\ dists' = <<uniform_distribution, product_distribution(prepare_dist(dist))>>
    /\ k' = 0
    /\ pc' = "dists_loop"
    /\ UNCHANGED <<inputs, iso, initial_x, fw_locals, xopt, pmf_opt, op_locals,
                   options, raised, solves, picked>>

\* the loop body for k in [0, 1, k_max]: continue
dists_continue ==
    /\ pc = "dists_loop" /\ k <= k_max /\ k \in {0, 1, k_max}
    /\ k' = k + 1
    /\ UNCHANGED <<inputs, dist, pc, dists, iso, initial_x, fw_locals, xopt, pmf_opt,
                   op_locals, options, raised, solves, picked>>

\* the loop body for the other k: the call of marginal_maxent
dists_call ==
    /\ pc = "dists_loop" /\ k <= k_max /\ k \notin {0, 1, k_max}
    /\ pc' = "marginal_maxent"
    /\ UNCHANGED <<inputs, dist, k, dists, iso, initial_x, fw_locals, xopt, pmf_opt,
                   op_locals, options, raised, solves, picked>>

\* after the loop: dists.append(dist); return dists
dists_return ==
    /\ pc = "dists_loop" /\ k > k_max
    /\ dists' = Append(dists, pmf(dist))
    /\ pc' = "done"
    /\ UNCHANGED <<inputs, dist, k, iso, initial_x, fw_locals, xopt, pmf_opt,
                   op_locals, options, raised, solves, picked>>

\* marginal_maxent up to its call of initial_point
marginal_maxent ==
    /\ pc = "marginal_maxent"
    /\ iso' = Some(isolate_zeros(dist, k))
    /\ pc' = "initial_point"
    /\ initial_x' = None /\ xopt' = None /\ pmf_opt' = None
    /\ x' = None /\ xdiff' = [num |-> 0, den |-> 1] /\ i' = 0 /\ obj' = None /\ fw_exit' = ""
    /\ solves' = 0 /\ picked' = ""
    /\ UNCHANGED <<inputs, dist, k, dists, op_locals, options, raised>>

\* initial_point up to its call of op_runner; A and b are given and isolated
\* is None, so isolate_zeros runs again
initial_point ==
    /\ pc = "initial_point"
    /\ LET variables == isolate_zeros(dist, k).variables
       IN  /\ iso' = Some(isolate_zeros(dist, k))
           /\ IF Len(iso[1].variables.nonzero) = Len(variables.nonzero)
              THEN /\ pc' = "op_runner"
                   /\ caller' = "initial_point"
                   /\ op_kwargs' = dict("False", "")
                   /\ UNCHANGED raised
              ELSE /\ pc' = "raised"
                   /\ raised' = "initial_point: A must be the reduced equality constraint matrix."
                   /\ UNCHANGED <<caller, op_kwargs>>
    /\ UNCHANGED <<inputs, dist, k, dists, initial_x, fw_locals, xopt, pmf_opt, opt,
                   old_options, options, solves, picked>>

\* op_runner up to opt.solve(): the copy, the program, the overrides
op_runner ==
    /\ pc = "op_runner"
    /\ old_options' = options
    /\ options' = update(clear(options), op_kwargs)
    /\ opt' = None
    /\ pc' = "op_solve"
    /\ UNCHANGED <<inputs, dist, k, dists, iso, initial_x, fw_locals, xopt, pmf_opt,
                   op_kwargs, caller, raised, solves, picked>>

nonzero_now == iso[1].variables.nonzero

\* opt.solve() ends with optimal status
op_solve_optimal ==
    /\ pc = "op_solve"
    /\ \E values \in (CASE caller = "initial_point" ->
                             initial_point_solutions(dist, k, nonzero_now)
                        [] caller = "frank_wolfe" ->
                             direction_solutions(dist, k, nonzero_now)
                        [] OTHER -> check_feasibility_solutions(dist)) :
          opt' = Some([status |-> "optimal", variables |-> values])
    /\ pc' = "op_finally"
    /\ UNCHANGED <<inputs, dist, k, dists, iso, initial_x, fw_locals, xopt, pmf_opt,
                   options, old_options, op_kwargs, caller, raised, solves, picked>>

\* opt.solve() ends with another status
op_solve_not_optimal ==
    /\ pc = "op_solve"
    /\ \E values \in (CASE caller = "initial_point" -> {no_values(Len(nonzero_now))}
                        [] caller = "frank_wolfe" -> direction_leftovers(dist, nonzero_now)
                        [] OTHER -> {no_values(n_elements)}) :
          opt' = Some([status |-> "unknown", variables |-> values])
    /\ pc' = "op_finally"
    /\ UNCHANGED <<inputs, dist, k, dists, iso, initial_x, fw_locals, xopt, pmf_opt,
                   options, old_options, op_kwargs, caller, raised, solves, picked>>

\* opt.solve() raises
op_solve_raises ==
    /\ pc = "op_solve"
    /\ raised' = "op_runner: the solver raised"
    /\ pc' = "op_finally"
    /\ UNCHANGED <<inputs, dist, k, dists, iso, initial_x, fw_locals, xopt, pmf_opt,
                   opt, options, old_options, op_kwargs, caller, solves, picked>>

\* the finally clause, then the return to the caller or the re-raise
op_finally ==
    /\ pc = "op_finally"
    /\ options' = restore(options, old_options)
    /\ old_options' = dict("", "")
    /\ pc' = IF raised # "" THEN "raised"
             ELSE CASE caller = "initial_point" -> "initial_point_return"
                    [] caller = "frank_wolfe" -> "fw_update"
                    [] OTHER -> "check_feasibility_return"
    /\ UNCHANGED <<inputs, dist, k, dists, iso, initial_x, fw_locals, xopt, pmf_opt,
                   opt, op_kwargs, caller, raised, solves, picked>>

\* initial_point after op_runner: the status, the extraction by length,
\* the snap and the renormalisation
initial_point_return ==
    /\ pc = "initial_point_return"
    /\ IF opt[1].status # "optimal"
       THEN /\ raised' = "initial_point: Could not find valid initial point."
            /\ pc' = "raised"
            /\ UNCHANGED <<initial_x, picked>>
       ELSE LET optvariables == opt[1].variables
                n == Len(nonzero_now)
                chosen == IF optvariables[1].size = n THEN optvariables[1]
                          ELSE optvariables[2]
            IN  /\ picked' = chosen.name
                /\ initial_x' = Some(snap(chosen.value[1]))
                /\ pc' = "frank_wolfe"
                /\ UNCHANGED raised
    /\ UNCHANGED <<inputs, dist, k, dists, iso, fw_locals, xopt, pmf_opt, op_locals,
                   options, solves>>

\* frank_wolfe up to its loop
frank_wolfe ==
    /\ pc = "frank_wolfe"
    /\ IF Len(nonzero_now) = Len(initial_x[1].num)
       THEN /\ x' = initial_x
            /\ xdiff' = [num |-> 0, den |-> 1]
            /\ i' = 0
            /\ pc' = "fw_loop"
            /\ UNCHANGED raised
       ELSE /\ raised' = "frank_wolfe: AssertionError"
            /\ pc' = "raised"
            /\ UNCHANGED <<x, xdiff, i>>
    /\ UNCHANGED <<inputs, dist, k, dists, iso, initial_x, obj, fw_exit, xopt, pmf_opt,
                   op_locals, options, solves, picked>>

\* one pass of the loop up to op_runner: obj, grad, the direction program
fw_iterate ==
    /\ pc = "fw_loop" /\ i < maxiters
    /\ obj' = Some(negentropy(x[1]))
    /\ solves' = solves + 1
    /\ caller' = "frank_wolfe"
    /\ op_kwargs' = dict("False", "")
    /\ pc' = "op_runner"
    /\ UNCHANGED <<inputs, dist, k, dists, iso, initial_x, x, xdiff, i, fw_exit, xopt,
                   pmf_opt, opt, old_options, options, raised, picked>>

\* the rest of the pass: the status is only printed; the step, xdiff, the test
fw_update ==
    /\ pc = "fw_update"
    /\ LET value == opt[1].variables[1].value
       IN  IF value = None
           THEN /\ raised' = "frank_wolfe: TypeError"
                /\ pc' = "raised"
                /\ UNCHANGED fw_locals
           ELSE LET xnew == step(i, x[1], value[1])
                    xdiff2 == norm_squared(xnew, x[1])
                IN  /\ xdiff' = xdiff2
                    /\ x' = Some(xnew)
                    /\ IF converged(xdiff2, tol)
                       THEN /\ obj' = Some(negentropy(xnew))
                            /\ fw_exit' = "break"
                            /\ pc' = "fw_cleanup"
                            /\ UNCHANGED i
                       ELSE /\ i' = i + 1
                            /\ pc' = "fw_loop"
                            /\ UNCHANGED <<obj, fw_exit>>
                    /\ UNCHANGED raised
    /\ UNCHANGED <<inputs, dist, k, dists, iso, initial_x, xopt, pmf_opt, op_locals,
                   options, solves, picked>>

\* the else clause of the loop: maxiters passes without a break
fw_else ==
    /\ pc = "fw_loop" /\ i >= maxiters
    /\ fw_exit' = "else"
    /\ pc' = "fw_cleanup"
    /\ UNCHANGED <<inputs, dist, k, dists, iso, initial_x, x, xdiff, i, obj, xopt,
                   pmf_opt, op_locals, options, raised, solves, picked>>

\* the cleanup and the return statement, which reads obj
fw_cleanup ==
    /\ pc = "fw_cleanup"
    /\ IF obj = None
       THEN /\ raised' = "frank_wolfe: UnboundLocalError"
            /\ pc' = "raised"
            /\ UNCHANGED xopt
       ELSE /\ xopt' = Some(cleanup(x[1], tol))
            /\ pc' = "marginal_maxent_return"
            /\ UNCHANGED raised
    /\ UNCHANGED <<inputs, dist, k, dists, iso, initial_x, fw_locals, pmf_opt, op_locals,
                   options, solves, picked>>

\* marginal_maxent after frank_wolfe: the full vector
marginal_maxent_return ==
    /\ pc = "marginal_maxent_return"
    /\ pmf_opt' = Some(rebuild(xopt[1], nonzero_now))
    /\ pc' = "dists_append"
    /\ UNCHANGED <<inputs, dist, k, dists, iso, initial_x, fw_locals, xopt, op_locals,
                   options, raised, solves, picked>>

\* the loop body after marginal_maxent: the new distribution joins the list
dists_append ==
    /\ pc = "dists_append"
    /\ dists' = Append(dists, pmf_opt[1])
    /\ k' = k + 1
    /\ pc' = "dists_loop"
    /\ iso' = None /\ initial_x' = None /\ xopt' = None /\ pmf_opt' = None /\ opt' = None
    /\ x' = None /\ xdiff' = [num |-> 0, den |-> 1] /\ i' = 0 /\ obj' = None /\ fw_exit' = ""
    /\ solves' = 0 /\ picked' = ""
    /\ UNCHANGED <<inputs, dist, old_options, op_kwargs, caller, options, raised>>

\* a call of isolate_zeros
isolate_zeros_call ==
    /\ pc = "start" /\ entry = "isolate_zeros"
    /\ iso' = Some(isolate_zeros(dist, k))
    /\ pc' = "done"
    /\ UNCHANGED <<inputs, dist, k, dists, initial_x, fw_locals, xopt, pmf_opt, op_locals,
                   options, raised, solves, picked>>

\* check_feasibility up to its call of op_runner
check_feasibility ==
    /\ pc = "start" /\ entry = "check_feasibility"
    /\ caller' = "check_feasibility"
    /\ op_kwargs' = kwargs
    /\ pc' = "op_runner"
    /\ UNCHANGED <<inputs, dist, k, dists, iso, initial_x, fw_locals, xopt, pmf_opt, opt,
                   old_options, options, raised, solves, picked>>

\* check_feasibility after op_runner
check_feasibility_return ==
    /\ pc = "check_feasibility_return"
    /\ IF opt[1].status # "optimal"
       THEN raised' = "check_feasibility: Not feasible" /\ pc' = "raised"
       ELSE pc' = "done" /\ UNCHANGED raised
    /\ UNCHANGED <<inputs, dist, k, dists, iso, initial_x, fw_locals, xopt, pmf_opt,
                   op_locals, options, solves, picked>>

Next ==
    \/ marginal_maxent_dists
    \/ dists_continue
    \/ dists_call
    \/ dists_return
    \/ marginal_maxent
    \/ initial_point
    \/ op_runner
    \/ op_solve_optimal
    \/ op_solve_not_optimal
    \/ op_solve_raises
    \/ op_finally
    \/ initial_point_return
    \/ frank_wolfe
    \/ fw_iterate
    \/ fw_update
    \/ fw_else
    \/ fw_cleanup
    \/ marginal_maxent_return
    \/ dists_append
    \/ isolate_zeros_call
    \/ check_feasibility
    \/ check_feasibility_return

Spec == Init /\ [][Next]_vars

\* the runs in which every solve ends with optimal status
NextOptimal ==
    \/ marginal_maxent_dists
    \/ dists_continue
    \/ dists_call
    \/ dists_return
    \/ marginal_maxent
    \/ initial_point
    \/ op_runner
    \/ op_solve_optimal
    \/ op_finally
    \/ initial_point_return
    \/ frank_wolfe
    \/ fw_iterate
    \/ fw_update
    \/ fw_else
    \/ fw_cleanup
    \/ marginal_maxent_return
    \/ dists_append
    \/ isolate_zeros_call
    \/ check_feasibility
    \/ check_feasibility_return

SpecOptimal == Init /\ [][NextOptimal]_vars

---------------------------------------------------------------------------
\* the properties

returned_dists == pc = "done" /\ entry = "marginal_maxent_dists"

\* the marginal of the full vector xv over every cell of every subset of kk
\* variables is within tolerance of the marginal of the distribution d
marginals_match(xv, d, kk, tolerance) ==
    /\ xv.nan = {}
    /\ \A r \in MarginalCells(kk) :
          LeqRat(Abs(Sum(xv.num, r[2]) * total(d) - Sum(d, r[2]) * xv.den),
                 xv.den * total(d), tolerance.num, tolerance.den)

\* x >= 0 and A x = b within TOL, for a reduced vector
feasible(xv) ==
    /\ nonnegative(xv)
    /\ residual_within(Asmall(dist, k, nonzero_now), marginal_constraints(dist, k).b,
                       xv, TOL_inv)

\* x is an iterate the loop adopted (x = xnew ran at least once)
adopted == x # None /\ (i >= 1 \/ fw_exit = "break")

\* isolate_zeros has just returned: to its caller, to marginal_maxent or to
\* initial_point
isolate_zeros_returned ==
    \/ pc = "done" /\ entry = "isolate_zeros"
    \/ pc = "initial_point"
    \/ pc = "op_runner" /\ caller = "initial_point"

\* C1: when marginal_maxent_dists returns, the list holds exactly k_max + 1
\* distributions and the one at index k_max is the prepared distribution
\* (the claim includes k_max = 0 and k_max = 1)
C1_list_has_k_max_plus_one ==
    returned_dists => Len(dists) = k_max + 1 /\ dists[k_max + 1] = pmf(dist)

\* C2: every k-subset marginal of the vector marginal_maxent returns matches
\* the marginal of the original distribution within tol (stated for the
\* returns whose components are all numbers: the division by a zero sum is
\* C3's subject)
C2_marginals_within_tol ==
    pmf_opt # None /\ pmf_opt[1].nan = {} => marginals_match(pmf_opt[1], dist, k, tol)

\* C3: the vector marginal_maxent returns has every component a nonnegative
\* number and sums to 1 within 1e-6; the cleanup never divides by a zero sum
C3_pmf_nonnegative_sums_to_one ==
    pmf_opt # None =>
        /\ nonnegative(pmf_opt[1])
        /\ AtMost(Sum(pmf_opt[1].num, outcomes) - pmf_opt[1].den, pmf_opt[1].den, 1000000)

\* C4: every index isolate_zeros put in the zero set is exactly 0 in the
\* full vector marginal_maxent returns
C4_zero_set_is_zero ==
    pmf_opt # None =>
        \A j \in Range(iso[1].variables.zero) :
            j \notin pmf_opt[1].nan /\ pmf_opt[1].num[j] = 0

\* C4 witness: a return with a nonempty zero set, after a direction program
\* that did not end optimal handed the loop a point outside the feasible set
C4_witness ==
    /\ pmf_opt # None
    /\ iso[1].variables.zero # <<>>
    /\ Len(iso[1].variables.nonzero) >= 2
    /\ solves >= 1
    /\ opt[1].status = "unknown"

\* C5: outside a running solve the solver options are what they were before
\* the call, whether op_runner returned or raised; while the solve runs they
\* are the overrides of the call
C5_options_restored ==
    /\ pc \notin {"op_solve", "op_finally"} => options = ambient
    /\ pc = "op_solve" => options = update(clear(options), op_kwargs)

\* C5 witness: a solve with overrides other than the ambient options raised,
\* and op_runner has re-raised
C5_witness ==
    /\ pc = "raised"
    /\ raised = "op_runner: the solver raised"
    /\ caller = "frank_wolfe"
    /\ ambient = dict("True", "100")
    /\ solves = 2

\* C6: frank_wolfe has at most maxiters direction programs solved, and when
\* no pass reached xdiff < tol it does not fail but returns
C6_terminates_without_failing ==
    /\ solves <= maxiters
    /\ fw_exit # "break" =>
          raised \notin {"frank_wolfe: UnboundLocalError", "frank_wolfe: TypeError"}

\* C7: from a feasible initial point, every iterate the loop adopts is
\* nonnegative and satisfies A x = b within the subproblem tolerance,
\* whatever the status of the direction programs
C7_iterates_feasible ==
    adopted /\ feasible(initial_x[1]) => feasible(x[1])

\* C8: zero and nonzero are disjoint and cover the indices; an index is in
\* zero exactly when some marginal cell of some k-subset that contains it has
\* a probability close to zero; A and b are None when zero is empty
C8_isolate_zeros_partition ==
    isolate_zeros_returned =>
        LET zero == iso[1].variables.zero
            nonzero == iso[1].variables.nonzero
        IN  /\ Range(zero) \cap Range(nonzero) = {}
            /\ Range(zero) \cup Range(nonzero) = outcomes
            /\ Len(zero) + Len(nonzero) = n_elements
            /\ \A j \in outcomes :
                  j \in Range(zero) <=>
                      \E subrvs \in combinations(rvs, k) :
                          \E idx \in parameter_array(subrvs) :
                              j \in idx /\ isclose(Sum(dist, idx), total(dist))
            /\ zero = <<>> => iso[1].A = None /\ iso[1].b = None
            /\ zero # <<>> => iso[1].A # None /\ Len(iso[1].A[1]) = Len(zero)

\* C8 witness: isolate_zeros returned a partition with both parts nonempty
\* in which an index lies in more than one zero cell
C8_witness ==
    /\ isolate_zeros_returned
    /\ iso[1].variables.zero # <<>>
    /\ iso[1].variables.nonzero # <<>>
    /\ \E j \in outcomes : zero_elements(dist, k)[j] >= 2

\* C9: the value initial_point takes from an optimal program is that of
\* the unknown x, never that of the slack t
C9_extracts_x ==
    picked # "" => picked = "x"

\* C10: the objective value frank_wolfe returns is the objective at the
\* last iterate the loop adopted, after a break and after maxiters passes
C10_objective_at_last_iterate ==
    xopt # None => obj = Some(negentropy(x[1]))

====
